---- MODULE Spec2Model ----
(***************************************************************************)
(* Stremio library exporter: the credential extraction state machine of    *)
(* auth_extractor.py, the batched restore of library_importer.py and the   *)
(* watched / watchlist categorisation of movie_extractor.py.               *)
(***************************************************************************)
EXTENDS Integers, Sequences, FiniteSets, TLC

(***************************************************************************)
(* Bounds of the model.                                                    *)
(***************************************************************************)
\* Longest storage snapshot (number of localStorage entries) explored.
MaxEntries == 2
\* Longest item list handed to restore_library.
MaxItems == 101
\* Longest raw result list handed to parse_library_data.
MaxRaw == 3

VARIABLES
    \* ---- auth_extractor.py: StremioAuthExtractor.extract_auth_key ----
    apc,            \* position of the extraction coroutine
    browserOpen,    \* a launched browser that has not been closed
    launchCount,    \* number of browser launches
    closeCount,     \* number of browser.close() calls
    loginAff,       \* page shows 'div:has-text("Log in")'
    libraryAff,     \* page shows 'a[href*="library"]'
    path,           \* branch taken by _navigate_and_login
    loginActions,   \* login actions performed on the page, in order
    hiddenResult,   \* outcome of the wait for the login form to disappear
    warned,         \* the "might still be visible" warning was logged
    storage_data,   \* the localStorage snapshot read by page.evaluate
    storageRead,    \* page.evaluate has read localStorage
    failedAt,       \* the step that raised, "" when none did
    errorLogged,    \* the except clause logged "Auth extraction failed"
    pending,        \* return value / exception in flight inside try
    outcome,        \* what the caller of extract_auth_key observes
    \* ---- library_importer.py: restore_library ----
    rpc,            \* position of restore_library
    auth_key,       \* the token passed in
    items,          \* the item list passed in
    i,              \* loop variable of range(0, total_items, batch_size), 0-based
    success_count,  \* running success tally
    calls,          \* payloads of the requests.post calls issued, in order
    responses,      \* what each call came back with, in order
    outstanding,    \* write calls issued and not yet returned or failed
    restored,       \* return value of restore_library, -1 before it returns
    \* ---- movie_extractor.py: parse_library_data ----
    ppc,            \* position of parse_library_data
    api_result,     \* api_response['result']
    parsed,         \* result of parse_library_data
    \* ---- the drivers: library_importer.py main, movie_extractor.py main ----
    mpc,            \* position of main
    credentials,    \* STREMIO_EMAIL and STREMIO_PASSWORD are both set
    backup,         \* the file named by args.backup_file
    itemsShape,     \* Python type of the items load_backup returned
    exit_code,      \* return value of main, -1 before it returns
    artifacts,      \* the files written by this run of the export
    backup_json     \* output/library_backup.json

authVars == <<apc, browserOpen, launchCount, closeCount, loginAff, libraryAff,
              path, loginActions, hiddenResult, warned, storage_data,
              storageRead, failedAt, errorLogged, pending, outcome>>
restoreVars == <<rpc, auth_key, items, i, success_count, calls, responses,
                 outstanding, restored>>
parseVars == <<ppc, api_result, parsed>>
mainVars == <<mpc, credentials, backup, itemsShape, exit_code, artifacts,
              backup_json>>
vars == <<authVars, restoreVars, parseVars, mainVars>>

(***************************************************************************)
(* Python values that the code inspects.                                   *)
(***************************************************************************)
NoResult == [kind |-> "none", value |-> ""]
Return(v) == [kind |-> "return", value |-> v]
Raise(e) == [kind |-> "raise", value |-> e]

\* Tokens found under auth.key.
Tokens == {"K1", "K2"}

(***************************************************************************)
(* localStorage snapshot: an ordered mapping; the keys are irrelevant to   *)
(* the scan, so an entry is modelled by its value.                         *)
(*   shape   "str"  : a value JSON.parse rejected (kept as a string)       *)
(*           "dict" : a JSON object                                        *)
(*   hasAuth        : the object has an 'auth' member                      *)
(*   others         : number of its other members                          *)
(*   auth           : the value of 'auth'                                  *)
(*       shape "null"  JSON null          (profile of a logged-out user)   *)
(*             "str"   a string; hasKey: it contains the substring 'key'   *)
(*             "dict"  an object; hasKey: it has a 'key' member, key its   *)
(*                     value                                               *)
(***************************************************************************)
NoAuth == [shape |-> "none", hasKey |-> FALSE, key |-> ""]
AuthValues ==
    {[shape |-> "null", hasKey |-> FALSE, key |-> ""],
     [shape |-> "str", hasKey |-> FALSE, key |-> ""],
     [shape |-> "str", hasKey |-> TRUE, key |-> ""],
     [shape |-> "dict", hasKey |-> FALSE, key |-> ""]}
    \cup {[shape |-> "dict", hasKey |-> TRUE, key |-> k] : k \in Tokens}
StorageValues ==
    {[shape |-> "str", hasAuth |-> FALSE, others |-> 0, auth |-> NoAuth],
     [shape |-> "dict", hasAuth |-> FALSE, others |-> 0, auth |-> NoAuth],
     [shape |-> "dict", hasAuth |-> FALSE, others |-> 1, auth |-> NoAuth]}
    \cup {[shape |-> "dict", hasAuth |-> TRUE, others |-> 0, auth |-> a] :
             a \in AuthValues}
Snapshots == UNION {[1..n -> StorageValues] : n \in 0..MaxEntries}

\* No profile found: profile_data = None.
NoneValue == [shape |-> "None", hasAuth |-> FALSE, others |-> 0, auth |-> NoAuth]

\* isinstance(value, dict) and 'auth' in value
IsProfile(value) == value.shape = "dict" /\ value.hasAuth

\* Python truth value of profile_data: None and the empty dict are false.
Truthy(value) ==
    /\ value.shape # "None"
    /\ (value.shape = "dict" => (value.hasAuth \/ value.others > 0))

\* The for loop with break: the first entry, in snapshot order, that is a
\* mapping with an 'auth' member; None when the loop ends without a break.
RECURSIVE ScanFrom(_, _)
ScanFrom(storage, k) ==
    IF k > Len(storage) THEN NoneValue
    ELSE IF IsProfile(storage[k]) THEN storage[k]
    ELSE ScanFrom(storage, k + 1)

\* The scan without its break: the last match wins.
RECURSIVE ScanLastFrom(_, _, _)
ScanLastFrom(storage, k, found) ==
    IF k > Len(storage) THEN found
    ELSE ScanLastFrom(storage, k + 1,
                      IF IsProfile(storage[k]) THEN storage[k] ELSE found)
find_profile_last(storage) == ScanLastFrom(storage, 1, NoneValue)

find_profile(storage) == ScanFrom(storage, 1)

\* 'key' not in auth_data, then auth_data['key']
\*   None        : the membership test raises TypeError
\*   str         : substring test; subscripting with 'key' raises TypeError
\*   dict        : member test; subscripting returns the member
key_of_auth(auth_data) ==
    CASE auth_data.shape = "null" -> Raise("TypeError")
      [] auth_data.shape = "str" ->
            IF ~auth_data.hasKey THEN Raise("No 'key' field found in auth data")
            ELSE Raise("TypeError")
      [] OTHER ->
            IF ~auth_data.hasKey THEN Raise("No 'key' field found in auth data")
            ELSE Return(auth_data.key)

\* Lines 158-180 of _extract_auth_key_from_storage, on a snapshot.
parse_storage(storage) ==
    LET profile_data == find_profile(storage) IN
    IF ~Truthy(profile_data)
    THEN Raise("Could not find profile data in localStorage")
    ELSE IF ~profile_data.hasAuth
    THEN Raise("No 'auth' field found in profile data")
    ELSE key_of_auth(profile_data.auth)

(***************************************************************************)
(* auth_extractor.py: StremioAuthExtractor.extract_auth_key                *)
(***************************************************************************)
InitAuth ==
    /\ apc = "launch_browser"
    /\ browserOpen = FALSE
    /\ launchCount = 0
    /\ closeCount = 0
    /\ loginAff = FALSE
    /\ libraryAff = FALSE
    /\ path = "none"
    /\ loginActions = <<>>
    /\ hiddenResult = "none"
    /\ warned = FALSE
    /\ storage_data = <<>>
    /\ storageRead = FALSE
    /\ failedAt = ""
    /\ errorLogged = FALSE
    /\ pending = NoResult
    /\ outcome = NoResult

\* An await inside the try block raised: control goes to the except clause.
Fail(step, error) ==
    /\ apc' = "except"
    /\ failedAt' = step
    /\ pending' = Raise(error)

\* Line 50: the launch is outside the try block; when it raises there is no
\* browser and the exception reaches the caller directly.
launch_browser ==
    /\ apc = "launch_browser"
    /\ \E ok \in BOOLEAN :
          IF ok
          THEN /\ browserOpen' = TRUE
               /\ launchCount' = launchCount + 1
               /\ apc' = "create_page"
               /\ UNCHANGED <<failedAt, pending, outcome>>
          ELSE /\ apc' = "done"
               /\ failedAt' = "launch_browser"
               /\ outcome' = Raise("launch failed")
               /\ UNCHANGED <<browserOpen, launchCount, pending>>
    /\ UNCHANGED <<closeCount, loginAff, libraryAff, path, loginActions,
                   hiddenResult, warned, storage_data, storageRead,
                   errorLogged>>

\* Line 53: browser.new_page()
create_page ==
    /\ apc = "create_page"
    /\ \E ok \in BOOLEAN :
          IF ok
          THEN apc' = "goto" /\ UNCHANGED <<failedAt, pending>>
          ELSE Fail("create_page", "new_page failed")
    /\ UNCHANGED <<browserOpen, launchCount, closeCount, loginAff, libraryAff,
                   path, loginActions, hiddenResult, warned, storage_data,
                   storageRead, errorLogged, outcome>>

\* Lines 80-82: page.goto(..., wait_until="networkidle")
page_goto ==
    /\ apc = "goto"
    /\ \E ok \in BOOLEAN :
          IF ok
          THEN apc' = "wait_for_affordance" /\ UNCHANGED <<failedAt, pending>>
          ELSE Fail("goto", "goto failed")
    /\ UNCHANGED <<browserOpen, launchCount, closeCount, loginAff, libraryAff,
                   path, loginActions, hiddenResult, warned, storage_data,
                   storageRead, errorLogged, outcome>>

\* Lines 84-86 with the timeout of the wait not raised.
wait_for_affordance_no_timeout ==
    /\ apc = "wait_for_affordance"
    /\ \E login \in BOOLEAN, library \in BOOLEAN :
          /\ loginAff' = login
          /\ libraryAff' = library
    /\ apc' = "query_login"
    /\ UNCHANGED <<browserOpen, launchCount, closeCount, path, loginActions,
                   hiddenResult, warned, storage_data, storageRead, failedAt,
                   errorLogged, pending, outcome>>

\* Lines 84-86: wait_for_selector('div:has-text("Log in"), a[href*="library"]',
\* timeout=30000). The page decides which of the two affordances it shows;
\* with neither the wait raises TimeoutError.
wait_for_affordance ==
    /\ apc = "wait_for_affordance"
    /\ \E login \in BOOLEAN, library \in BOOLEAN :
          /\ loginAff' = login
          /\ libraryAff' = library
          /\ IF login \/ library
             THEN apc' = "query_login" /\ UNCHANGED <<failedAt, pending>>
             ELSE Fail("wait_for_affordance", "navigation timeout")
    /\ UNCHANGED <<browserOpen, launchCount, closeCount, path, loginActions,
                   hiddenResult, warned, storage_data, storageRead,
                   errorLogged, outcome>>

\* Lines 88-92 with the coroutine tested instead of its result (a missing
\* await): the test is always true and the login is always performed.
query_login_always ==
    /\ apc = "query_login"
    /\ \E ok \in BOOLEAN :
          IF ~ok
          THEN Fail("query_login", "query_selector failed") /\ path' = path
          ELSE /\ path' = "LOGIN_REQUIRED"
               /\ apc' = "click_login"
               /\ UNCHANGED <<failedAt, pending>>
    /\ UNCHANGED <<browserOpen, launchCount, closeCount, loginAff, libraryAff,
                   loginActions, hiddenResult, warned, storage_data,
                   storageRead, errorLogged, outcome>>

\* Lines 88-92: if query_selector('div:has-text("Log in")') then
\* _perform_login else "Already logged in".
query_login ==
    /\ apc = "query_login"
    /\ \E ok \in BOOLEAN :
          IF ~ok
          THEN Fail("query_login", "query_selector failed") /\ path' = path
          ELSE /\ IF loginAff
                  THEN path' = "LOGIN_REQUIRED" /\ apc' = "click_login"
                  ELSE path' = "ALREADY_AUTHENTICATED" /\ apc' = "storage_settle"
               /\ UNCHANGED <<failedAt, pending>>
    /\ UNCHANGED <<browserOpen, launchCount, closeCount, loginAff, libraryAff,
                   loginActions, hiddenResult, warned, storage_data,
                   storageRead, errorLogged, outcome>>

\* A step of _perform_login / _fill_credentials that waits for an element and
\* acts on it: the element may be missing (the wait raises) or the action done.
LoginStep(at, action, next) ==
    /\ apc = at
    /\ \E ok \in BOOLEAN :
          IF ok
          THEN /\ loginActions' = Append(loginActions, action)
               /\ apc' = next
               /\ UNCHANGED <<failedAt, pending>>
          ELSE Fail(at, "missing element") /\ loginActions' = loginActions
    /\ UNCHANGED <<browserOpen, launchCount, closeCount, loginAff, libraryAff,
                   path, hiddenResult, warned, storage_data, storageRead,
                   errorLogged, outcome>>

\* Lines 97-101: wait for the login button, click it, settle 2000 ms.
click_login == LoginStep("click_login", "click_login", "fill_email")
\* Lines 128-129
fill_email == LoginStep("fill_email", "fill_email", "fill_password")
\* Lines 132-133
fill_password == LoginStep("fill_password", "fill_password", "submit")
\* Lines 107-110
submit_login == LoginStep("submit", "submit", "wait_hidden")

\* Lines 116-120 without the except clause: the timeout of the wait is raised.
wait_login_hidden_strict ==
    /\ apc = "wait_hidden"
    /\ \E hidden \in BOOLEAN :
          /\ hiddenResult' = IF hidden THEN "hidden" ELSE "timeout"
          /\ IF hidden
             THEN apc' = "network_idle" /\ UNCHANGED <<failedAt, pending>>
             ELSE Fail("wait_hidden", "login form still visible")
          /\ warned' = warned
    /\ UNCHANGED <<browserOpen, launchCount, closeCount, loginAff, libraryAff,
                   path, loginActions, storage_data, storageRead, errorLogged,
                   outcome>>

\* Lines 116-120: wait for the login button to be hidden, timeout 10000; the
\* bare except turns any failure of the wait into a warning.
wait_login_hidden ==
    /\ apc = "wait_hidden"
    /\ \E hidden \in BOOLEAN :
          /\ hiddenResult' = IF hidden THEN "hidden" ELSE "timeout"
          /\ warned' = ~hidden
    /\ apc' = "network_idle"
    /\ UNCHANGED <<browserOpen, launchCount, closeCount, loginAff, libraryAff,
                   path, loginActions, storage_data, storageRead, failedAt,
                   errorLogged, pending, outcome>>

\* Line 123: page.wait_for_load_state("networkidle")
wait_network_idle ==
    /\ apc = "network_idle"
    /\ \E ok \in BOOLEAN :
          IF ok
          THEN apc' = "storage_settle" /\ UNCHANGED <<failedAt, pending>>
          ELSE Fail("network_idle", "network idle wait failed")
    /\ UNCHANGED <<browserOpen, launchCount, closeCount, loginAff, libraryAff,
                   path, loginActions, hiddenResult, warned, storage_data,
                   storageRead, errorLogged, outcome>>

\* Line 140: page.wait_for_timeout(3000)
storage_settle ==
    /\ apc = "storage_settle"
    /\ \E ok \in BOOLEAN :
          IF ok
          THEN apc' = "read_storage" /\ UNCHANGED <<failedAt, pending>>
          ELSE Fail("storage_settle", "wait_for_timeout failed")
    /\ UNCHANGED <<browserOpen, launchCount, closeCount, loginAff, libraryAff,
                   path, loginActions, hiddenResult, warned, storage_data,
                   storageRead, errorLogged, outcome>>

\* Lines 143-156: page.evaluate reads every localStorage entry.
read_storage ==
    /\ apc = "read_storage"
    /\ \/ \E snapshot \in Snapshots :
             /\ storage_data' = snapshot
             /\ storageRead' = TRUE
             /\ apc' = "parse_storage"
             /\ UNCHANGED <<failedAt, pending>>
       \/ /\ Fail("read_storage", "evaluate failed")
          /\ UNCHANGED <<storage_data, storageRead>>
    /\ UNCHANGED <<browserOpen, launchCount, closeCount, loginAff, libraryAff,
                   path, loginActions, hiddenResult, warned, errorLogged,
                   outcome>>

\* Lines 158-180: locate the profile and return auth.key, or raise.
extract_auth_key_from_storage ==
    /\ apc = "parse_storage"
    /\ LET r == parse_storage(storage_data) IN
          IF r.kind = "return"
          THEN /\ pending' = r
               /\ apc' = "finally"
               /\ failedAt' = failedAt
          ELSE Fail("parse_storage", r.value)
    /\ UNCHANGED <<browserOpen, launchCount, closeCount, loginAff, libraryAff,
                   path, loginActions, hiddenResult, warned, storage_data,
                   storageRead, errorLogged, outcome>>

\* The except clause without a finally clause behind it: the exception
\* leaves extract_auth_key at once.
handle_exception_no_finally ==
    /\ apc = "except"
    /\ errorLogged' = TRUE
    /\ outcome' = pending
    /\ apc' = "done"
    /\ UNCHANGED <<browserOpen, launchCount, closeCount, loginAff, libraryAff,
                   path, loginActions, hiddenResult, warned, storage_data,
                   storageRead, failedAt, pending>>

\* Lines 57-59: log the error and re-raise; the finally clause runs next.
handle_exception ==
    /\ apc = "except"
    /\ errorLogged' = TRUE
    /\ apc' = "finally"
    /\ UNCHANGED <<browserOpen, launchCount, closeCount, loginAff, libraryAff,
                   path, loginActions, hiddenResult, warned, storage_data,
                   storageRead, failedAt, pending, outcome>>

\* Lines 60-61: finally: await browser.close()
browser_close ==
    /\ apc = "finally"
    /\ browserOpen' = FALSE
    /\ closeCount' = closeCount + 1
    /\ apc' = "exit"
    /\ UNCHANGED <<launchCount, loginAff, libraryAff, path, loginActions,
                   hiddenResult, warned, storage_data, storageRead, failedAt,
                   errorLogged, pending, outcome>>

\* The return value or the re-raised exception leaves extract_auth_key.
leave_extract ==
    /\ apc = "exit"
    /\ outcome' = pending
    /\ apc' = "done"
    /\ UNCHANGED <<browserOpen, launchCount, closeCount, loginAff, libraryAff,
                   path, loginActions, hiddenResult, warned, storage_data,
                   storageRead, failedAt, errorLogged, pending>>

(***************************************************************************)
(* library_importer.py: restore_library                                    *)
(***************************************************************************)
\* Line 48
batch_size == 50

Min(a, b) == IF a < b THEN a ELSE b

\* Item lists: the items are opaque to restore_library. Two families, one
\* of pairwise distinct items and one with repeated items.
ItemLists ==
    {[j \in 1..n |-> j] : n \in 0..MaxItems}
    \cup {[j \in 1..n |-> j % 7] : n \in 0..MaxItems}

(***************************************************************************)
(* What a requests.post call can come back with.                           *)
(*   kind "transport_error" : requests.post raised                         *)
(*        "http_error"      : raise_for_status raised (status >= 400)      *)
(*        "bad_json"        : response.json() raised                       *)
(*        "json"            : a parsed body, of shape "dict" or "list";    *)
(*                            result / success are the members of a dict   *)
(*                            body, "absent" when it has no such member.   *)
(*                            success "1" is the JSON number 1.            *)
(***************************************************************************)
Body(shape, result, success) ==
    [kind |-> "json", shape |-> shape, result |-> result, success |-> success]
Responses ==
    {[kind |-> k, shape |-> "none", result |-> "absent", success |-> "absent"] :
        k \in {"transport_error", "http_error", "bad_json"}}
    \cup {Body("list", "absent", "absent")}
    \cup {Body("dict", r, s) : r \in {"absent", "ok", "error"},
                               s \in {"absent", "true", "false"}}
    \cup {Body("dict", "absent", "1")}

\* Python's value == True: true of True and of the number 1.
EqualsTrue(value) == value \in {"true", "1"}

\* Line 55: batch = items[i:i + batch_size], one item short.
next_batch_short(its, idx) ==
    SubSeq(its, idx + 1, Min(idx + batch_size - 1, Len(its)))

\* Line 55: batch = items[i:i + batch_size]
next_batch(its, idx) == SubSeq(its, idx + 1, Min(idx + batch_size, Len(its)))

\* Line 68 with 'and' in place of 'or'.
batch_outcome_both(resp) ==
    IF resp.kind # "json" \/ resp.shape # "dict" THEN "failed"
    ELSE IF resp.result = "ok" /\ EqualsTrue(resp.success) THEN "restored"
    ELSE "may_have_failed"

\* Lines 63-75: the try block on one response.
\*   "failed"          : the except clause ran (post, raise_for_status,
\*                       json() or the .get of a body that is no dict raised)
\*   "restored"        : line 68 held
\*   "may_have_failed" : the else branch, a warning
batch_outcome(resp) ==
    IF resp.kind # "json" THEN "failed"
    ELSE IF resp.shape # "dict" THEN "failed"
    ELSE IF resp.result = "ok" \/ EqualsTrue(resp.success) THEN "restored"
    ELSE "may_have_failed"

\* Line 69 counting a full batch whatever the batch holds.
tally_full_batch(count, batch) == count + batch_size

\* Line 69: success_count += len(batch)
tally(count, batch) == count + Len(batch)

InitRestore ==
    /\ rpc = "loop"
    /\ auth_key \in Tokens
    /\ items \in ItemLists
    /\ i = 0
    /\ success_count = 0
    /\ calls = <<>>
    /\ responses = <<>>
    /\ outstanding = 0
    /\ restored = -1

\* Lines 54-64 with the post not awaited: the next batch is issued while
\* the previous call is still outstanding.
post_batch_pipelined ==
    /\ rpc \in {"loop", "posted"}
    /\ batch_size * Len(calls) < Len(items)
    /\ calls' = Append(calls, [authKey |-> auth_key,
                               collection |-> "libraryItem",
                               changes |-> next_batch(items,
                                                      batch_size * Len(calls))])
    /\ outstanding' = outstanding + 1
    /\ rpc' = "posted"
    /\ UNCHANGED <<auth_key, items, i, success_count, responses, restored>>

\* Lines 54-64: the loop takes the next batch and posts it.
post_batch ==
    /\ rpc = "loop"
    /\ i < Len(items)
    /\ calls' = Append(calls, [authKey |-> auth_key,
                               collection |-> "libraryItem",
                               changes |-> next_batch(items, i)])
    /\ outstanding' = outstanding + 1
    /\ rpc' = "posted"
    /\ UNCHANGED <<auth_key, items, i, success_count, responses, restored>>

\* Lines 64-75: the call returns or fails; the loop goes on either way.
batch_response ==
    /\ rpc = "posted"
    /\ \E resp \in Responses :
          /\ responses' = Append(responses, resp)
          /\ success_count' =
                IF batch_outcome(resp) = "restored"
                THEN tally(success_count, calls[Len(calls)].changes)
                ELSE success_count
    /\ outstanding' = outstanding - 1
    /\ i' = i + batch_size
    /\ rpc' = "loop"
    /\ UNCHANGED <<auth_key, items, calls, restored>>

\* Line 77: return success_count
restore_return ==
    /\ rpc = "loop"
    /\ i >= Len(items)
    /\ restored' = success_count
    /\ rpc' = "done"
    /\ UNCHANGED <<auth_key, items, i, success_count, calls, responses,
                   outstanding>>

(***************************************************************************)
(* movie_extractor.py: parse_library_data                                  *)
(***************************************************************************)
\* A member the JSON object does not have.
Absent == "absent"
\* Python's None (JSON null, and the default of dict.get).
None == "None"

\* dict.get(member, default)
Get(value, default) == IF value = Absent THEN default ELSE value
\* Python truth value of a string or None.
Falsy(value) == value \in {"", None}

\* The 'state' member: absent, JSON null, or an object with or without a
\* timesWatched counter.
StateAbsent == [shape |-> "absent", hasTimes |-> FALSE, timesWatched |-> 0]
StateNull == [shape |-> "null", hasTimes |-> FALSE, timesWatched |-> 0]
StateDict(has, n) == [shape |-> "dict", hasTimes |-> has, timesWatched |-> n]
\* The 'meta' member: absent, JSON null, or an object.
MetaAbsent == [shape |-> "absent", poster |-> Absent, year |-> Absent]
MetaNull == [shape |-> "null", poster |-> Absent, year |-> Absent]
MetaDict(poster, year) == [shape |-> "dict", poster |-> poster, year |-> year]

RawItem(id, name, state, poster, meta) ==
    [_id |-> id, name |-> name, state |-> state, poster |-> poster,
     year |-> Absent, type |-> Absent, meta |-> meta]

RawItems ==
    \* well-formed records, kept
    {RawItem("tt1", "A", st, Absent, MetaAbsent) :
        st \in {StateAbsent, StateDict(FALSE, 0), StateDict(TRUE, 0),
                StateDict(TRUE, 1)}}
    \cup {RawItem("tt2", "B", StateDict(TRUE, n), "p", MetaDict(Absent, "y")) :
             n \in {0, 2}}
    \* records without identifier or name
    \cup {RawItem("", "C", StateDict(TRUE, 1), Absent, MetaDict("mp", Absent)),
          RawItem(Absent, "C", StateAbsent, Absent, MetaAbsent),
          RawItem("tt3", "", StateDict(TRUE, 1), Absent, MetaAbsent),
          RawItem("tt3", Absent, StateDict(TRUE, 0), Absent, MetaAbsent)}
    \* records whose state or meta is JSON null
    \cup {RawItem("", "C", StateNull, Absent, MetaAbsent),
          RawItem("tt1", "A", StateNull, Absent, MetaAbsent),
          RawItem(Absent, "C", StateAbsent, Absent, MetaNull),
          RawItem("tt2", "B", StateDict(TRUE, 1), "p", MetaNull)}
RawLists == UNION {[1..n -> RawItems] : n \in 0..MaxRaw}

\* Lines 72-98 on one record. error is the exception the lines raise, ""
\* when they raise none; skip is the test of line 89.
normalize_item(item) ==
    LET imdb_id == Get(item._id, "")
        name == Get(item.name, "")
        stateError == item.state.shape = "null"      \* line 75: None.get
        flagged_watched ==
            IF item.state.shape = "dict" /\ item.state.hasTimes
            THEN item.state.timesWatched ELSE 0
        poster0 == Get(item.poster, None)
        hasMeta == item.meta.shape # "absent"
        \* line 79: 'poster' in item['meta'] with meta None
        posterError == Falsy(poster0) /\ hasMeta /\ item.meta.shape = "null"
        poster == IF Falsy(poster0) /\ hasMeta /\ item.meta.shape = "dict"
                     /\ item.meta.poster # Absent
                  THEN item.meta.poster ELSE poster0
        year0 == Get(item.year, None)
        \* line 84: item['meta'].get with meta None
        yearError == Falsy(year0) /\ hasMeta /\ item.meta.shape = "null"
        year == IF Falsy(year0) /\ hasMeta /\ item.meta.shape = "dict"
                THEN Get(item.meta.year, None) ELSE year0
        item_type == Get(item.type, "movie")
    IN  [error |-> IF stateError THEN "AttributeError"
                   ELSE IF posterError THEN "TypeError"
                   ELSE IF yearError THEN "AttributeError"
                   ELSE "",
         skip |-> Falsy(imdb_id) \/ Falsy(name),
         flagged_watched |-> flagged_watched,
         movie_data |-> [imdbID |-> imdb_id, Title |-> name, poster |-> poster,
                         year |-> year, type |-> item_type]]

\* Lines 101-104 with the else lost: a watched item lands in both lists.
categorize_both(acc, movie_data, flagged_watched) ==
    [acc EXCEPT !.watched = IF flagged_watched > 0
                            THEN Append(@, movie_data) ELSE @,
                !.watchlist = Append(@, movie_data)]

\* Lines 101-104 with >= in place of >: a counter of 0 counts as watched.
categorize_nonneg(acc, movie_data, flagged_watched) ==
    IF flagged_watched >= 0
    THEN [acc EXCEPT !.watched = Append(@, movie_data)]
    ELSE [acc EXCEPT !.watchlist = Append(@, movie_data)]

\* Lines 101-104 with insert(0, ...) in place of append: newest first.
categorize_prepend(acc, movie_data, flagged_watched) ==
    IF flagged_watched > 0
    THEN [acc EXCEPT !.watched = <<movie_data>> \o @]
    ELSE [acc EXCEPT !.watchlist = <<movie_data>> \o @]

\* Lines 101-104: flagged_watched > 0 appends to watched, else to watchlist.
categorize(acc, movie_data, flagged_watched) ==
    IF flagged_watched > 0
    THEN [acc EXCEPT !.watched = Append(@, movie_data)]
    ELSE [acc EXCEPT !.watchlist = Append(@, movie_data)]

\* Lines 70-104: the loop over result from record k on.
RECURSIVE ParseFrom(_, _, _)
ParseFrom(result, k, acc) ==
    IF k > Len(result) THEN [acc EXCEPT !.status = "return"]
    ELSE LET n == normalize_item(result[k]) IN
         IF n.error # "" THEN [acc EXCEPT !.status = "raise", !.error = n.error]
         ELSE IF n.skip THEN ParseFrom(result, k + 1, acc)
         ELSE ParseFrom(result, k + 1,
                        categorize(acc, n.movie_data, n.flagged_watched))

NotParsed == [status |-> "none", error |-> "", watched |-> <<>>,
              watchlist |-> <<>>]

\* Lines 63-107: the two lists returned, or the exception raised.
parse_library_data(result) == ParseFrom(result, 1, NotParsed)

InitParse ==
    /\ ppc = "start"
    /\ api_result \in RawLists
    /\ parsed = NotParsed

\* One call of parse_library_data on the result list.
parse_library ==
    /\ ppc = "start"
    /\ parsed' = parse_library_data(api_result)
    /\ ppc' = "done"
    /\ UNCHANGED api_result

(***************************************************************************)
(* Specifications. Each runs one of the three programs; the state of the   *)
(* other two stays as it was initialised.                                  *)
(***************************************************************************)
IdleAuth ==
    /\ apc = "idle"
    /\ browserOpen = FALSE
    /\ launchCount = 0
    /\ closeCount = 0
    /\ loginAff = FALSE
    /\ libraryAff = FALSE
    /\ path = "none"
    /\ loginActions = <<>>
    /\ hiddenResult = "none"
    /\ warned = FALSE
    /\ storage_data = <<>>
    /\ storageRead = FALSE
    /\ failedAt = ""
    /\ errorLogged = FALSE
    /\ pending = NoResult
    /\ outcome = NoResult

IdleRestore ==
    /\ rpc = "idle"
    /\ auth_key = ""
    /\ items = <<>>
    /\ i = 0
    /\ success_count = 0
    /\ calls = <<>>
    /\ responses = <<>>
    /\ outstanding = 0
    /\ restored = -1

IdleParse ==
    /\ ppc = "idle"
    /\ api_result = <<>>
    /\ parsed = NotParsed

\* No backup file is involved.
NoBackup == [exists |-> FALSE, content |-> "none", n |-> 0]
\* library_backup.json before the export has written it.
NoFile == [status |-> "missing", content |-> <<>>]

IdleMain ==
    /\ mpc = "idle"
    /\ credentials = TRUE
    /\ backup = NoBackup
    /\ itemsShape = "list"
    /\ exit_code = -1
    /\ artifacts = {}
    /\ backup_json = NoFile

\* The credential extraction.
Init == InitAuth /\ IdleRestore /\ IdleParse /\ IdleMain
Next ==
    \/ launch_browser /\ UNCHANGED <<restoreVars, parseVars, mainVars>>
    \/ create_page /\ UNCHANGED <<restoreVars, parseVars, mainVars>>
    \/ page_goto /\ UNCHANGED <<restoreVars, parseVars, mainVars>>
    \/ wait_for_affordance /\ UNCHANGED <<restoreVars, parseVars, mainVars>>
    \/ query_login /\ UNCHANGED <<restoreVars, parseVars, mainVars>>
    \/ click_login /\ UNCHANGED <<restoreVars, parseVars, mainVars>>
    \/ fill_email /\ UNCHANGED <<restoreVars, parseVars, mainVars>>
    \/ fill_password /\ UNCHANGED <<restoreVars, parseVars, mainVars>>
    \/ submit_login /\ UNCHANGED <<restoreVars, parseVars, mainVars>>
    \/ wait_login_hidden /\ UNCHANGED <<restoreVars, parseVars, mainVars>>
    \/ wait_network_idle /\ UNCHANGED <<restoreVars, parseVars, mainVars>>
    \/ storage_settle /\ UNCHANGED <<restoreVars, parseVars, mainVars>>
    \/ read_storage /\ UNCHANGED <<restoreVars, parseVars, mainVars>>
    \/ extract_auth_key_from_storage /\ UNCHANGED <<restoreVars, parseVars, mainVars>>
    \/ handle_exception /\ UNCHANGED <<restoreVars, parseVars, mainVars>>
    \/ browser_close /\ UNCHANGED <<restoreVars, parseVars, mainVars>>
    \/ leave_extract /\ UNCHANGED <<restoreVars, parseVars, mainVars>>
Spec == Init /\ [][Next]_vars

\* The restore.
InitR == IdleAuth /\ InitRestore /\ IdleParse /\ IdleMain
NextR ==
    \/ post_batch /\ UNCHANGED <<authVars, parseVars, mainVars>>
    \/ batch_response /\ UNCHANGED <<authVars, parseVars, mainVars>>
    \/ restore_return /\ UNCHANGED <<authVars, parseVars, mainVars>>
SpecRestore == InitR /\ [][NextR]_vars

\* The categorisation.
InitP == IdleAuth /\ IdleRestore /\ InitParse /\ IdleMain
NextP ==
    \/ parse_library /\ UNCHANGED <<authVars, restoreVars, mainVars>>
SpecParse == InitP /\ [][NextP]_vars

(***************************************************************************)
(* Properties of the credential extraction (Spec).                         *)
(***************************************************************************)
\* The steps of extract_auth_key that run after the finally clause started.
Leaving == {"exit", "done"}

\* C1: once extract_auth_key has launched a browser, the browser is closed
\* exactly once on every exit path (token returned, navigation timeout,
\* missing element during login, credential-shape failure): the caller sees
\* the return value or the exception only after close() has run, and no run
\* stops before it has left extract_auth_key with the browser closed.
C1_BrowserClosedOnEveryExit ==
    /\ launchCount <= 1
    /\ closeCount <= launchCount
    /\ browserOpen = (launchCount = 1 /\ closeCount = 0)
    /\ (apc \in Leaving /\ launchCount = 1) => (closeCount = 1 /\ ~browserOpen)
    /\ (outcome.kind # "none" /\ failedAt # "launch_browser") =>
          (launchCount = 1 /\ closeCount = 1 /\ ~browserOpen)
    /\ (apc = "done" /\ failedAt # "launch_browser") =>
          (outcome = pending /\ outcome.kind # "none")
    /\ apc # "done" => ENABLED Next

\* A credential-shape failure has reached the caller, the browser closed.
C1_Witness ==
    /\ apc = "done"
    /\ failedAt = "parse_storage"
    /\ outcome.kind = "raise"
    /\ launchCount = 1
    /\ closeCount = 1

\* The storage snapshot has been parsed (lines 158-180 have run).
ParseRan == storageRead /\ apc # "parse_storage"

\* The three labelled failures of token extraction.
LabelledFailures ==
    {"Could not find profile data in localStorage",
     "No 'auth' field found in profile data",
     "No 'key' field found in auth data"}

\* C5: for every storage snapshot, token extraction returns auth.key or fails
\* with one of the three labelled failures (missing profile record, missing
\* auth field, missing key inside auth), never with a generic exception; a
\* snapshot with no entry containing auth fails differently from one whose
\* auth exists but lacks key, also when auth is not a mapping (null).
C5_LabelledFailuresOnly ==
    ParseRan =>
       /\ pending.kind = "raise" => pending.value \in LabelledFailures
       /\ (\A k \in DOMAIN storage_data : ~storage_data[k].hasAuth) =>
             pending = Raise("Could not find profile data in localStorage")
       /\ (/\ \E k \in DOMAIN storage_data : IsProfile(storage_data[k])
           /\ \A k \in DOMAIN storage_data :
                 IsProfile(storage_data[k]) =>
                    ~(storage_data[k].auth.shape = "dict"
                      /\ storage_data[k].auth.hasKey)) =>
             pending = Raise("No 'key' field found in auth data")

\* The entries of the snapshot that are mappings with an auth member.
Candidates ==
    {k \in DOMAIN storage_data :
        storage_data[k].shape = "dict" /\ storage_data[k].hasAuth}
FirstCandidate == CHOOSE k \in Candidates : \A m \in Candidates : k <= m

\* C6: the ProfileRecord is the first entry of the snapshot, in snapshot
\* order, that is a mapping containing auth; the token returned is that
\* entry's auth.key; later entries are never consulted, so a first candidate
\* without key fails the extraction even when a later entry has auth.key;
\* with no candidate the extraction fails.
C6_FirstMatchWins ==
    ParseRan =>
       IF Candidates = {}
       THEN pending.kind = "raise" /\ failedAt = "parse_storage"
       ELSE LET auth == storage_data[FirstCandidate].auth IN
            IF auth.shape = "dict" /\ auth.hasKey
            THEN pending = Return(auth.key)
            ELSE pending.kind = "raise" /\ failedAt = "parse_storage"

\* Two candidates, the first without key and the second with one: failure.
C6_Witness ==
    /\ ParseRan
    /\ Cardinality(Candidates) = 2
    /\ ~storage_data[1].auth.hasKey
    /\ storage_data[2].auth.shape = "dict"
    /\ storage_data[2].auth.hasKey
    /\ outcome.kind = "raise"

\* C7 as stated: when the library affordance is present after navigation the
\* extractor takes the ALREADY_AUTHENTICATED path and performs no login
\* action.
C7_LibraryAffordanceSkipsLogin ==
    (libraryAff /\ path # "none") =>
       (path = "ALREADY_AUTHENTICATED" /\ loginActions = <<>>)

\* C7, amended: when the library affordance is present and the login
\* affordance is not, the extractor takes the ALREADY_AUTHENTICATED path; on
\* that path it goes to the storage read with no login action performed;
\* login actions are performed only on the LOGIN_REQUIRED path, which is
\* taken whenever the login affordance is present.
C7_LoginAffordanceDecides ==
    /\ (path # "none" /\ libraryAff /\ ~loginAff) =>
          path = "ALREADY_AUTHENTICATED"
    /\ path = "ALREADY_AUTHENTICATED" =>
          /\ loginActions = <<>>
          /\ hiddenResult = "none"
          /\ failedAt \in {"", "storage_settle", "read_storage", "parse_storage"}
          /\ apc \in {"storage_settle", "read_storage", "parse_storage",
                      "except", "finally", "exit", "done"}
    /\ loginActions # <<>> => (path = "LOGIN_REQUIRED" /\ loginAff)
    /\ (path # "none" /\ loginAff) => path = "LOGIN_REQUIRED"

\* Storage was read on the ALREADY_AUTHENTICATED path.
C7_Witness ==
    /\ path = "ALREADY_AUTHENTICATED"
    /\ libraryAff
    /\ storageRead
    /\ outcome.kind = "return"

\* C8: when the login affordance does not disappear within its bounded wait
\* after the submit, the extraction does not fail there: a warning is logged,
\* the network-idle wait follows and then the storage read, as when the
\* affordance disappeared; only the network-idle wait or a later step fails.
C8_SoftTimeoutContinues ==
    /\ hiddenResult = "timeout" =>
          /\ warned
          /\ failedAt \in {"", "network_idle", "storage_settle", "read_storage",
                           "parse_storage"}
    /\ hiddenResult = "hidden" => ~warned
    /\ (hiddenResult # "none" /\ failedAt = "") =>
          /\ apc \in {"network_idle", "storage_settle", "read_storage",
                      "parse_storage", "finally", "exit", "done"}
          /\ apc \in {"finally", "exit", "done"} =>
                (storageRead /\ pending.kind = "return")
    /\ storageRead => failedAt \notin {"wait_hidden", "network_idle"}

\* A token was returned although the login form never disappeared.
C8_Witness ==
    /\ hiddenResult = "timeout"
    /\ warned
    /\ storageRead
    /\ apc = "done"
    /\ outcome.kind = "return"

\* The wait for one of the two affordances is over.
AffordanceWaitOver ==
    /\ apc \notin {"launch_browser", "create_page", "goto",
                   "wait_for_affordance"}
    /\ failedAt \notin {"launch_browser", "create_page", "goto"}

\* C9: when neither the login affordance nor the library affordance appears
\* within the navigation timeout the extraction ends in failure: no login
\* action is performed, persistent storage is never read, no token returned.
C9_NavigationTimeoutIsFatal ==
    (AffordanceWaitOver /\ ~loginAff /\ ~libraryAff) =>
       /\ failedAt = "wait_for_affordance"
       /\ pending = Raise("navigation timeout")
       /\ path = "none"
       /\ loginActions = <<>>
       /\ ~storageRead
       /\ outcome.kind # "return"
       /\ apc \in {"except", "finally", "exit", "done"}
       /\ apc = "done" => outcome = Raise("navigation timeout")

\* The navigation timeout has reached the caller.
C9_Witness ==
    /\ apc = "done"
    /\ failedAt = "wait_for_affordance"
    /\ ~loginAff
    /\ ~libraryAff
    /\ outcome.kind = "raise"

(***************************************************************************)
(* Properties of restore_library (SpecRestore).                            *)
(***************************************************************************)
\* ceil(n / batch_size)
CeilBatches(n) == (n + batch_size - 1) \div batch_size

\* The 'changes' arrays of the first k calls, concatenated in issue order.
RECURSIVE ChangesUpTo(_)
ChangesUpTo(k) ==
    IF k = 0 THEN <<>> ELSE ChangesUpTo(k - 1) \o calls[k].changes

\* C2: for an item list of length N restore_library issues exactly
\* ceil(N/50) write calls whatever the calls come back with; each call
\* carries at most 50 items; the 'changes' arrays, concatenated in issue
\* order, are the input list: every item once, in the original order. With
\* N = 0 no call is issued.
C2_BatchChunking ==
    /\ \A k \in DOMAIN calls :
          Len(calls[k].changes) >= 1 /\ Len(calls[k].changes) <= 50
    /\ Len(calls) <= CeilBatches(Len(items))
    /\ ChangesUpTo(Len(calls)) =
          SubSeq(items, 1, Len(ChangesUpTo(Len(calls))))
    /\ rpc = "done" =>
          /\ Len(calls) = CeilBatches(Len(items))
          /\ ChangesUpTo(Len(calls)) = items
          /\ Len(items) = 0 => calls = <<>>

\* The response does not report a failure of the call.
Returned(resp) == resp.kind = "json"
\* A parsed body that indicates success: result == "ok" or success == true
\* (the comparison is Python's, which the number 1 passes as well).
IndicatesSuccess(resp) ==
    /\ resp.shape = "dict"
    /\ (resp.result = "ok" \/ resp.success \in {"true", "1"})
Accepted(resp) == Returned(resp) /\ IndicatesSuccess(resp)

\* Three calls for more than 100 items, the second of them failed.
C2_Witness ==
    /\ rpc = "done"
    /\ Len(items) > 2 * batch_size
    /\ Len(calls) = 3
    /\ ~Accepted(responses[2])

\* Sum of the sizes of the accepted batches among the first k.
RECURSIVE AcceptedSize(_)
AcceptedSize(k) ==
    IF k = 0 THEN 0
    ELSE AcceptedSize(k - 1)
         + (IF Accepted(responses[k]) THEN Len(calls[k].changes) ELSE 0)
\* Sum of the sizes of the first k batches.
RECURSIVE SubmittedSize(_)
SubmittedSize(k) ==
    IF k = 0 THEN 0 ELSE SubmittedSize(k - 1) + Len(calls[k].changes)

\* C3: a failed batch (transport error, HTTP error status, unparseable body,
\* body that does not indicate success) never aborts the restore: every
\* later batch is still submitted, and the value returned is the sum of the
\* sizes of exactly the accepted batches, out of N items submitted.
C3_PartialFailureTally ==
    /\ rpc = "loop" =>
          (Len(responses) = Len(calls) /\ i = batch_size * Len(calls))
    /\ (rpc = "loop" /\ i < Len(items)) => ENABLED post_batch
    /\ rpc = "posted" => ENABLED batch_response
    /\ rpc = "done" =>
          /\ Len(calls) = CeilBatches(Len(items))
          /\ Len(responses) = Len(calls)
          /\ restored = AcceptedSize(Len(calls))
          /\ SubmittedSize(Len(calls)) = Len(items)

\* Three batches, only the second failed: the tally is batch 1 + batch 3.
C3_Witness ==
    /\ rpc = "done"
    /\ Len(calls) = 3
    /\ Accepted(responses[1])
    /\ ~Accepted(responses[2])
    /\ Accepted(responses[3])
    /\ restored = Len(calls[1].changes) + Len(calls[3].changes)
    /\ restored < Len(items)

\* C4: a batch adds its size to the success tally if and only if its write
\* call returned without transport or HTTP error and the body has
\* result == "ok" or success == true; either key alone suffices; with
\* neither the tally is left as it was.
C4_SuccessCriterion ==
    [][rpc = "posted" =>
          LET resp == responses'[Len(responses')]
              batch == calls[Len(calls)].changes
          IN  /\ Len(responses') = Len(calls)
              /\ success_count' - success_count \in {0, Len(batch)}
              /\ (success_count' = success_count + Len(batch)) <=>
                    /\ resp.kind \notin {"transport_error", "http_error",
                                         "bad_json"}
                    /\ resp.shape = "dict"
                    /\ (resp.result = "ok" \/ resp.success \in {"true", "1"})
       ]_vars

\* A batch accepted on the success key alone and one accepted on the result
\* key alone, after a batch with neither.
C4_Witness ==
    /\ Len(responses) = 3
    /\ responses[1] = Body("dict", "error", "false")
    /\ responses[2] = Body("dict", "absent", "true")
    /\ responses[3] = Body("dict", "ok", "absent")
    /\ success_count = Len(calls[2].changes) + Len(calls[3].changes)
    /\ success_count > 0

(***************************************************************************)
(* Properties of parse_library_data (SpecParse).                           *)
(***************************************************************************)
\* The input records that have a non-empty identifier and a non-empty name.
RetainedRecords ==
    {k \in DOMAIN api_result :
        /\ api_result[k]._id \notin {"", Absent}
        /\ api_result[k].name \notin {"", Absent}}
IdsOf(movies) == {movies[k].imdbID : k \in DOMAIN movies}
\* Occurrences of identifier id in a partition.
Occurrences(movies, id) ==
    Cardinality({k \in DOMAIN movies : movies[k].imdbID = id})
Returned2 == ppc = "done" /\ parsed.status = "return"

Droppable(item) ==
    item._id \in {"", Absent} \/ item.name \in {"", Absent}

\* C11: a raw record whose identifier or name is missing or empty is dropped
\* without any error being raised, whatever the values or shapes of its
\* other fields such as state and meta, and appears in neither partition;
\* every item of the output has a non-empty id and a non-empty title.
C11_DroppedWithoutError ==
    ppc = "done" =>
       /\ (\A k \in DOMAIN api_result :
              ~Droppable(api_result[k]) =>
                 (api_result[k].state.shape # "null"
                  /\ api_result[k].meta.shape # "null")) =>
             parsed.status = "return"
       /\ \A k \in DOMAIN parsed.watched :
             /\ parsed.watched[k].imdbID \notin {"", Absent, None}
             /\ parsed.watched[k].Title \notin {"", Absent, None}
       /\ \A k \in DOMAIN parsed.watchlist :
             /\ parsed.watchlist[k].imdbID \notin {"", Absent, None}
             /\ parsed.watchlist[k].Title \notin {"", Absent, None}

\* The timesWatched counter of a record, 0 when the counter or the state
\* sub-structure is absent.
TimesWatched(item) ==
    IF item.state.shape = "dict" /\ item.state.hasTimes
    THEN item.state.timesWatched ELSE 0

\* C12: a retained record is in the watched partition if and only if its
\* timesWatched counter is strictly positive: 0 goes to watchlist, 1 to
\* watched, an absent counter or an absent state counts as 0.
C12_WatchedThreshold ==
    Returned2 =>
       \A id \in {"tt1", "tt2", "tt3"} :
          /\ Occurrences(parsed.watched, id) =
                Cardinality({k \in RetainedRecords :
                                /\ api_result[k]._id = id
                                /\ TimesWatched(api_result[k]) > 0})
          /\ Occurrences(parsed.watchlist, id) =
                Cardinality({k \in RetainedRecords :
                                /\ api_result[k]._id = id
                                /\ TimesWatched(api_result[k]) <= 0})

\* Absent state, counter 0 and counter 1, in this order: two in watchlist,
\* one in watched.
C12_Witness ==
    /\ Returned2
    /\ Len(api_result) = 3
    /\ RetainedRecords = {1, 2, 3}
    /\ api_result[1].state = StateAbsent
    /\ api_result[2].state = StateDict(TRUE, 0)
    /\ api_result[3].state = StateDict(TRUE, 1)
    /\ Len(parsed.watched) = 1
    /\ Len(parsed.watchlist) = 2

\* The identifiers of the retained input records from record k on, in input
\* order, restricted to one partition (watched or not).
RECURSIVE RetainedIds(_, _)
RetainedIds(k, watched) ==
    IF k > Len(api_result) THEN <<>>
    ELSE IF k \in RetainedRecords
            /\ (TimesWatched(api_result[k]) > 0) = watched
         THEN <<api_result[k]._id>> \o RetainedIds(k + 1, watched)
         ELSE RetainedIds(k + 1, watched)
IdSeq(movies) == [k \in DOMAIN movies |-> movies[k].imdbID]

\* C13: each partition is a stable filter of the input: two retained
\* records of the same partition keep their input order; nothing is
\* re-sorted and nothing de-duplicated.
C13_StableFilter ==
    Returned2 =>
       /\ IdSeq(parsed.watched) = RetainedIds(1, TRUE)
       /\ IdSeq(parsed.watchlist) = RetainedIds(1, FALSE)

\* Three watched records, tt2 between two records that share tt1.
C13_Witness ==
    /\ Returned2
    /\ IdSeq(parsed.watched) = <<"tt1", "tt2", "tt1">>
    /\ parsed.watchlist = <<>>

(***************************************************************************)
(* More properties of restore_library (SpecRestore).                       *)
(***************************************************************************)
\* C16: every write call of one restore carries the token passed in as
\* authKey and the collection "libraryItem"; the calls are issued strictly
\* one after another: a call is issued only when the previous one has
\* returned or failed, and never are two calls outstanding.
C16_SequentialSameToken ==
    /\ \A k \in DOMAIN calls :
          calls[k].authKey = auth_key /\ calls[k].collection = "libraryItem"
    /\ outstanding \in {0, 1}
    /\ outstanding = Len(calls) - Len(responses)
    /\ (outstanding = 1) = (rpc = "posted")
    /\ ENABLED post_batch => outstanding = 0

\* The third call is outstanding, the first two have come back.
C16_Witness ==
    /\ Len(calls) = 3
    /\ Len(responses) = 2
    /\ outstanding = 1
    /\ calls[3].authKey = calls[1].authKey

(***************************************************************************)
(* library_importer.py: main, the restore driver.                          *)
(***************************************************************************)
\* Number of items of the short backups explored; the backups hold 0,
\* MaxBackup or batch_size + MaxBackup items.
MaxBackup == 1

(***************************************************************************)
(* The backup file.                                                        *)
(*   exists  : Path(args.backup_file).exists()                             *)
(*   content "unreadable"     : open() raises                              *)
(*           "unparseable"    : json.load raises                           *)
(*           "scalar"         : JSON that is neither an object nor a list  *)
(*           "dict_no_result" : an object without a "result" member        *)
(*           "list"           : a bare list of n items                     *)
(*           "result_list"    : {"result": [n items]}                      *)
(*           "result_dict"    : {"result": {n members}}                    *)
(*           "result_null"    : {"result": null}                           *)
(***************************************************************************)
BackupSizes == {0, MaxBackup, batch_size + MaxBackup}
BackupFiles ==
    {NoBackup}
    \cup {[exists |-> TRUE, content |-> c, n |-> 0] :
             c \in {"unreadable", "unparseable", "scalar", "dict_no_result",
                    "result_null"}}
    \cup {[exists |-> TRUE, content |-> c, n |-> n] :
             c \in {"list", "result_list", "result_dict"}, n \in BackupSizes}

\* Lines 23-38: what load_backup returns (the Python type of the value and
\* its length) or that it raises ValueError.
load_backup(file) ==
    CASE file.content \in {"unreadable", "unparseable"} ->
            [kind |-> "raise", shape |-> "none", n |-> 0]
      [] file.content = "result_list" ->
            [kind |-> "return", shape |-> "list", n |-> file.n]
      [] file.content = "result_dict" ->
            [kind |-> "return", shape |-> "dict", n |-> file.n]
      [] file.content = "result_null" ->
            [kind |-> "return", shape |-> "None", n |-> 0]
      [] file.content = "list" ->
            [kind |-> "return", shape |-> "list", n |-> file.n]
      [] OTHER -> [kind |-> "raise", shape |-> "none", n |-> 0]

\* The frame of extract_auth_key is gone once main has its result: only the
\* browser counters and the result itself are kept.
ForgetExtraction ==
    /\ apc' = "idle"
    /\ loginAff' = FALSE
    /\ libraryAff' = FALSE
    /\ path' = "none"
    /\ loginActions' = <<>>
    /\ hiddenResult' = "none"
    /\ warned' = FALSE
    /\ storage_data' = <<>>
    /\ storageRead' = FALSE
    /\ failedAt' = ""
    /\ errorLogged' = FALSE
    /\ pending' = NoResult
    /\ UNCHANGED <<browserOpen, launchCount, closeCount, outcome>>

InitImport ==
    /\ IdleAuth
    /\ IdleRestore
    /\ IdleParse
    /\ mpc = "check_exists"
    /\ credentials \in BOOLEAN
    /\ backup \in BackupFiles
    /\ itemsShape = "list"
    /\ exit_code = -1
    /\ artifacts = {}
    /\ backup_json = NoFile

\* Lines 86-88: a missing backup file ends main with 1.
import_check_exists ==
    /\ mpc = "check_exists"
    /\ IF backup.exists
       THEN mpc' = "load_backup" /\ exit_code' = exit_code
       ELSE mpc' = "exited" /\ exit_code' = 1
    /\ UNCHANGED <<credentials, backup, itemsShape, artifacts, backup_json>>
    /\ UNCHANGED <<authVars, restoreVars, parseVars>>

\* Lines 93-94 with a load_backup that answers a failure with an empty list.
import_load_backup_lenient ==
    /\ mpc = "load_backup"
    /\ LET loaded == load_backup(backup) IN
          /\ items' = [j \in 1..loaded.n |-> j]
          /\ itemsShape' = IF loaded.shape = "dict" THEN "dict" ELSE "list"
          /\ mpc' = "call_extract"
          /\ exit_code' = exit_code
    /\ UNCHANGED <<credentials, backup, artifacts, backup_json>>
    /\ UNCHANGED <<rpc, auth_key, i, success_count, calls, responses,
                   outstanding, restored>>
    /\ UNCHANGED <<authVars, parseVars>>

\* Lines 93-94 and 105-107: items = load_backup(...), then len(items) for
\* the log line; a ValueError of load_backup and the TypeError of len(None)
\* end main with 1.
import_load_backup ==
    /\ mpc = "load_backup"
    /\ LET loaded == load_backup(backup) IN
          IF loaded.kind = "raise" \/ loaded.shape = "None"
          THEN /\ mpc' = "exited"
               /\ exit_code' = 1
               /\ UNCHANGED <<items, itemsShape>>
          ELSE /\ items' = [j \in 1..loaded.n |-> j]
               /\ itemsShape' = loaded.shape
               /\ mpc' = "call_extract"
               /\ exit_code' = exit_code
    /\ UNCHANGED <<credentials, backup, artifacts, backup_json>>
    /\ UNCHANGED <<rpc, auth_key, i, success_count, calls, responses,
                   outstanding, restored>>
    /\ UNCHANGED <<authVars, parseVars>>

\* Line 98 and auth_extractor.py lines 183-195, 36-45: the extractor is
\* built (ValueError when a credential is missing) and extract_auth_key
\* is entered.
import_call_extract ==
    /\ mpc = "call_extract"
    /\ IF credentials
       THEN /\ mpc' = "extracting"
            /\ apc' = "launch_browser"
            /\ exit_code' = exit_code
       ELSE /\ mpc' = "exited"
            /\ apc' = apc
            /\ exit_code' = 1
    /\ UNCHANGED <<browserOpen, launchCount, closeCount, loginAff, libraryAff,
                   path, loginActions, hiddenResult, warned, storage_data,
                   storageRead, failedAt, errorLogged, pending, outcome>>
    /\ UNCHANGED <<credentials, backup, itemsShape, artifacts, backup_json>>
    /\ UNCHANGED <<restoreVars, parseVars>>

\* Lines 98-102 and 48-52: the token comes back and restore_library is
\* entered; an exception of the extraction ends main with 1.
import_extract_done ==
    /\ mpc = "extracting"
    /\ apc = "done"
    /\ ForgetExtraction
    /\ IF outcome.kind = "return"
       THEN /\ mpc' = "restoring"
            /\ auth_key' = outcome.value
            /\ rpc' = "loop"
            /\ i' = 0
            /\ success_count' = 0
            /\ exit_code' = exit_code
       ELSE /\ mpc' = "exited"
            /\ exit_code' = 1
            /\ UNCHANGED <<auth_key, rpc, i, success_count>>
    /\ UNCHANGED <<items, calls, responses, outstanding, restored>>
    /\ UNCHANGED <<credentials, backup, itemsShape, artifacts, backup_json>>
    /\ UNCHANGED parseVars

\* Line 55 on items that are a dict: subscripting with a slice raises, and
\* the line is outside the try block of the loop.
restore_slice_raises ==
    /\ rpc = "loop"
    /\ i < Len(items)
    /\ itemsShape = "dict"
    /\ rpc' = "raised"
    /\ UNCHANGED <<auth_key, items, i, success_count, calls, responses,
                   outstanding, restored>>
    /\ UNCHANGED <<authVars, parseVars, mainVars>>

\* Lines 102-109: restore_library has returned: log the tally, return 0; an
\* exception that left restore_library is caught and main returns 1.
import_restore_done ==
    /\ mpc = "restoring"
    /\ rpc \in {"done", "raised"}
    /\ mpc' = "exited"
    /\ exit_code' = IF rpc = "done" THEN 0 ELSE 1
    /\ UNCHANGED <<credentials, backup, itemsShape, artifacts, backup_json>>
    /\ UNCHANGED <<authVars, restoreVars, parseVars>>

NextImport ==
    \/ import_check_exists
    \/ import_load_backup
    \/ import_call_extract
    \/ launch_browser /\ UNCHANGED <<restoreVars, parseVars, mainVars>>
    \/ create_page /\ UNCHANGED <<restoreVars, parseVars, mainVars>>
    \/ page_goto /\ UNCHANGED <<restoreVars, parseVars, mainVars>>
    \/ wait_for_affordance /\ UNCHANGED <<restoreVars, parseVars, mainVars>>
    \/ query_login /\ UNCHANGED <<restoreVars, parseVars, mainVars>>
    \/ click_login /\ UNCHANGED <<restoreVars, parseVars, mainVars>>
    \/ fill_email /\ UNCHANGED <<restoreVars, parseVars, mainVars>>
    \/ fill_password /\ UNCHANGED <<restoreVars, parseVars, mainVars>>
    \/ submit_login /\ UNCHANGED <<restoreVars, parseVars, mainVars>>
    \/ wait_login_hidden /\ UNCHANGED <<restoreVars, parseVars, mainVars>>
    \/ wait_network_idle /\ UNCHANGED <<restoreVars, parseVars, mainVars>>
    \/ storage_settle /\ UNCHANGED <<restoreVars, parseVars, mainVars>>
    \/ read_storage /\ UNCHANGED <<restoreVars, parseVars, mainVars>>
    \/ extract_auth_key_from_storage
          /\ UNCHANGED <<restoreVars, parseVars, mainVars>>
    \/ handle_exception /\ UNCHANGED <<restoreVars, parseVars, mainVars>>
    \/ browser_close /\ UNCHANGED <<restoreVars, parseVars, mainVars>>
    \/ leave_extract /\ UNCHANGED <<restoreVars, parseVars, mainVars>>
    \/ import_extract_done
    \/ post_batch /\ itemsShape = "list"
          /\ UNCHANGED <<authVars, parseVars, mainVars>>
    \/ restore_slice_raises
    \/ batch_response /\ UNCHANGED <<authVars, parseVars, mainVars>>
    \/ restore_return /\ UNCHANGED <<authVars, parseVars, mainVars>>
    \/ import_restore_done
SpecImport == InitImport /\ [][NextImport]_vars

(***************************************************************************)
(* Properties of the restore driver (SpecImport).                          *)
(***************************************************************************)
\* The backup file is missing, unreadable, unparseable, or of neither
\* accepted shape (an object with a result key, a bare list).
MalformedBackup ==
    \/ ~backup.exists
    \/ backup.content \in {"unreadable", "unparseable", "scalar",
                           "dict_no_result"}

\* C14: a backup file that is missing, unparseable or of neither accepted
\* shape is fatal before any network activity: the browser login is never
\* started and no datastorePut call is issued in that run; a write call is
\* only ever issued after the backup was loaded and a token extracted.
C14_MalformedBackupBeforeNetwork ==
    /\ MalformedBackup =>
          /\ launchCount = 0
          /\ apc = "idle"
          /\ rpc = "idle"
          /\ calls = <<>>
          /\ outstanding = 0
          /\ mpc \in {"check_exists", "load_backup", "exited"}
          /\ mpc = "exited" => exit_code = 1
    /\ calls # <<>> =>
          /\ backup.exists
          /\ backup.content \in {"list", "result_list"}
          /\ Len(items) = backup.n
          /\ launchCount = 1
          /\ closeCount = 1
          /\ outcome.kind = "return"
          /\ \A k \in DOMAIN calls : calls[k].authKey = outcome.value

\* A backup object without a result key has ended the run before any login.
C14_Witness ==
    /\ mpc = "exited"
    /\ backup.exists
    /\ backup.content = "dict_no_result"
    /\ credentials
    /\ exit_code = 1
    /\ launchCount = 0
    /\ calls = <<>>

\* restore_library has been entered.
RestoreReached == rpc # "idle"

\* C15: the exit code is 1 exactly when a fatal pre-restore error occurred
\* (backup not found or unreadable, credential extraction failed) and 0
\* otherwise: once restore_library has been reached the exit code is 0,
\* whatever the number of failed batches, also when every batch failed.
C15_ExitCodeOnlyPreRestore ==
    mpc = "exited" =>
       /\ exit_code \in {0, 1}
       /\ (exit_code = 1) = ~RestoreReached
       /\ RestoreReached => exit_code = 0

(***************************************************************************)
(* movie_extractor.py: main, the export driver.                            *)
(***************************************************************************)
\* The result lists the API answers with in the export runs.
ExportResults == UNION {[1..n -> RawItems] : n \in 0..1}
\* library_backup.json left behind by an earlier run.
StaleFile == [status |-> "stale", content |-> <<>>]
\* library_backup.json holding the response of this run.
Written(result) == [status |-> "written", content |-> result]
\* library_backup.json truncated by open(..., 'w') and not completed.
PartialFile == [status |-> "partial", content |-> <<>>]

InitExport ==
    /\ IdleAuth
    /\ IdleRestore
    /\ IdleParse
    /\ mpc = "call_extract"
    /\ credentials \in BOOLEAN
    /\ backup = NoBackup
    /\ itemsShape = "list"
    /\ exit_code = -1
    /\ artifacts = {}
    /\ backup_json \in {NoFile, StaleFile}

\* Lines 235-237: an exception reaches the except clause of main.
ExportFails == mpc' = "exited" /\ exit_code' = 1
\* The step is done and main goes on.
ExportGoes(next) == mpc' = next /\ exit_code' = exit_code

\* Line 168 and auth_extractor.py lines 183-195, 36-45.
export_call_extract ==
    /\ mpc = "call_extract"
    /\ IF credentials
       THEN ExportGoes("extracting") /\ apc' = "launch_browser"
       ELSE ExportFails /\ apc' = apc
    /\ UNCHANGED <<browserOpen, launchCount, closeCount, loginAff, libraryAff,
                   path, loginActions, hiddenResult, warned, storage_data,
                   storageRead, failedAt, errorLogged, pending, outcome>>
    /\ UNCHANGED <<credentials, backup, itemsShape, artifacts, backup_json>>
    /\ UNCHANGED <<restoreVars, parseVars>>

\* Lines 168-169: the token comes back, or the extraction raised.
export_extract_done ==
    /\ mpc = "extracting"
    /\ apc = "done"
    /\ ForgetExtraction
    /\ IF outcome.kind = "return"
       THEN ExportGoes("api_request") /\ auth_key' = outcome.value
       ELSE ExportFails /\ auth_key' = auth_key
    /\ UNCHANGED <<rpc, items, i, success_count, calls, responses,
                   outstanding, restored>>
    /\ UNCHANGED <<credentials, backup, itemsShape, artifacts, backup_json>>
    /\ UNCHANGED parseVars

\* Line 173, make_api_request lines 30-60: the response, or an exception of
\* the request or of the JSON decoding, which main does not survive.
export_api_request ==
    /\ mpc = "api_request"
    /\ \/ \E result \in ExportResults :
             api_result' = result /\ ExportGoes("parse")
       \/ ExportFails /\ api_result' = api_result
    /\ UNCHANGED <<ppc, parsed>>
    /\ UNCHANGED <<credentials, backup, itemsShape, artifacts, backup_json>>
    /\ UNCHANGED <<authVars, restoreVars>>

\* Line 177: parse_library_data(api_response, logger)
export_parse ==
    /\ mpc = "parse"
    /\ parsed' = parse_library_data(api_result)
    /\ ppc' = "done"
    /\ IF parsed'.status = "return" THEN ExportGoes("mkdir") ELSE ExportFails
    /\ UNCHANGED api_result
    /\ UNCHANGED <<credentials, backup, itemsShape, artifacts, backup_json>>
    /\ UNCHANGED <<authVars, restoreVars>>

\* Lines 180-185: output_dir.mkdir(exist_ok=True)
export_mkdir ==
    /\ mpc = "mkdir"
    /\ \E ok \in BOOLEAN : IF ok THEN ExportGoes("save_csv") ELSE ExportFails
    /\ UNCHANGED <<credentials, backup, itemsShape, artifacts, backup_json>>
    /\ UNCHANGED <<authVars, restoreVars, parseVars>>

\* Lines 188-190, save_to_csv lines 110-124: an empty list writes no file;
\* a failure to write a CSV file is not caught.
export_save_csv ==
    /\ mpc = "save_csv"
    /\ LET some == parsed.watched # <<>> \/ parsed.watchlist # <<>> IN
       \E ok \in BOOLEAN :
          IF ok \/ ~some
          THEN /\ ExportGoes("generate_html")
               /\ artifacts' = IF some THEN artifacts \cup {"csv"} ELSE artifacts
          ELSE ExportFails /\ artifacts' = artifacts
    /\ UNCHANGED <<credentials, backup, itemsShape, backup_json>>
    /\ UNCHANGED <<authVars, restoreVars, parseVars>>

\* Line 195, html_generator.py lines 328-335: a failure to write the report
\* is logged and answered with False, which main ignores.
export_generate_html ==
    /\ mpc = "generate_html"
    /\ \E ok \in BOOLEAN :
          artifacts' = IF ok THEN artifacts \cup {"html"} ELSE artifacts
    /\ ExportGoes("save_json")
    /\ UNCHANGED <<credentials, backup, itemsShape, backup_json>>
    /\ UNCHANGED <<authVars, restoreVars, parseVars>>

\* Line 200, save_json_backup lines 127-134: the response is dumped to
\* library_backup.json; a failure of open or of json.dump is logged and
\* swallowed.
export_save_json_backup ==
    /\ mpc = "save_json"
    /\ \/ /\ backup_json' = Written(api_result)
          /\ artifacts' = artifacts \cup {"json"}
       \/ /\ backup_json' = backup_json          \* open() raised
          /\ artifacts' = artifacts
       \/ /\ backup_json' = PartialFile          \* json.dump raised
          /\ artifacts' = artifacts
    /\ ExportGoes("create_zip")
    /\ UNCHANGED <<credentials, backup, itemsShape>>
    /\ UNCHANGED <<authVars, restoreVars, parseVars>>

\* Line 204, create_backup_zip lines 137-158: a failure is logged and None
\* is returned.
export_create_zip ==
    /\ mpc = "create_zip"
    /\ \E ok \in BOOLEAN :
          artifacts' = IF ok THEN artifacts \cup {"zip"} ELSE artifacts
    /\ ExportGoes("open_report")
    /\ UNCHANGED <<credentials, backup, itemsShape, backup_json>>
    /\ UNCHANGED <<authVars, restoreVars, parseVars>>

\* Lines 207-233: the summary, webbrowser.open and the previews, return 0;
\* an exception of webbrowser.open is caught by main.
export_report ==
    /\ mpc = "open_report"
    /\ \E ok \in BOOLEAN :
          IF ok THEN mpc' = "exited" /\ exit_code' = 0 ELSE ExportFails
    /\ UNCHANGED <<credentials, backup, itemsShape, artifacts, backup_json>>
    /\ UNCHANGED <<authVars, restoreVars, parseVars>>

NextExport ==
    \/ export_call_extract
    \/ launch_browser /\ UNCHANGED <<restoreVars, parseVars, mainVars>>
    \/ create_page /\ UNCHANGED <<restoreVars, parseVars, mainVars>>
    \/ page_goto /\ UNCHANGED <<restoreVars, parseVars, mainVars>>
    \/ wait_for_affordance /\ UNCHANGED <<restoreVars, parseVars, mainVars>>
    \/ query_login /\ UNCHANGED <<restoreVars, parseVars, mainVars>>
    \/ click_login /\ UNCHANGED <<restoreVars, parseVars, mainVars>>
    \/ fill_email /\ UNCHANGED <<restoreVars, parseVars, mainVars>>
    \/ fill_password /\ UNCHANGED <<restoreVars, parseVars, mainVars>>
    \/ submit_login /\ UNCHANGED <<restoreVars, parseVars, mainVars>>
    \/ wait_login_hidden /\ UNCHANGED <<restoreVars, parseVars, mainVars>>
    \/ wait_network_idle /\ UNCHANGED <<restoreVars, parseVars, mainVars>>
    \/ storage_settle /\ UNCHANGED <<restoreVars, parseVars, mainVars>>
    \/ read_storage /\ UNCHANGED <<restoreVars, parseVars, mainVars>>
    \/ extract_auth_key_from_storage
          /\ UNCHANGED <<restoreVars, parseVars, mainVars>>
    \/ handle_exception /\ UNCHANGED <<restoreVars, parseVars, mainVars>>
    \/ browser_close /\ UNCHANGED <<restoreVars, parseVars, mainVars>>
    \/ leave_extract /\ UNCHANGED <<restoreVars, parseVars, mainVars>>
    \/ export_extract_done
    \/ export_api_request
    \/ export_parse
    \/ export_mkdir
    \/ export_save_csv
    \/ export_generate_html
    \/ export_save_json_backup
    \/ export_create_zip
    \/ export_report
SpecExport == InitExport /\ [][NextExport]_vars

(***************************************************************************)
(* Properties of the export driver (SpecExport).                           *)
(***************************************************************************)
\* C17: exit code 0 implies that the raw API response was written verbatim
\* as the backup artifact in that run: no run reports success while the raw
\* backup was not saved, also when writing the backup file fails and when
\* an earlier step (CSV or HTML generation) fails.
C17_ExitZeroImpliesBackupSaved ==
    (mpc = "exited" /\ exit_code = 0) =>
       /\ "json" \in artifacts
       /\ backup_json = Written(api_result)

====
